---- MODULE Spec2Model ----
(***************************************************************************)
(* rusty-pong: the scoring rules (score.rs), the phase state machine       *)
(* (main.rs, splash.rs, pause.rs, endgame.rs), the ball life cycle         *)
(* (ball.rs) and the predictive opponent (player.rs), as the engine        *)
(* schedules them: every frame runs the StateTransition schedule, then the *)
(* systems of Update in an order the code leaves open (only the systems of *)
(* PlayerPlugin are chained), then the deferred commands, then PostUpdate. *)
(*                                                                         *)
(* Units: time in ms, lengths in 1/100 of a world unit, velocities in      *)
(* 1/100 of a world unit per second, random f32 draws in 1/100.            *)
(*                                                                         *)
(* Spec      the phases, the score and the ball, without PlayerPlugin     *)
(* SpecScore the scoring rules alone                                       *)
(* SpecAi    every system, PlayerPlugin included, with the collisions      *)
(*           narrowed to the ball and the Right wall                       *)
(* SpecBall  one ball in flight: the speed governor of ball.rs and the     *)
(*           prediction of player.rs on its position and velocity          *)
(***************************************************************************)
EXTENDS Integers, Sequences, FiniteSets, TLC

\* ----- bounds of the model -----
\* Scores are followed up to MaxScore, a frame delivers at most MaxEvents
\* collision notifications, at most MaxBalls ball entities are tracked, and
\* a frame lasts 0 or MaxDelta * 50 ms.
MaxScore == 12
MaxEvents == 2
MaxBalls == 2
MaxDelta == 3

\* ----- program constants -----
ServeDelay == 750
WinScore == 11
WinLead == 2
DeuceScore == 10
NormalThreshold == 2
DeuceThreshold == 1
speed == 2
left_x == -765
right_x == 765
punch_duration == 50
punch_distance == 15
update_rate == 300
movement_deadzone == 8
hit_point_offset == 40
error_chance == 12
max_error == 100
miss_chance == 5
min_duration == 100
max_duration == 500
miss_distance == 200
MIN_VELOCITY == 700
MAX_VELOCITY == 2000

VARIABLES score, state, next_state, balls, commands, schedule, pending,
          space, delta, ai, intent, position, velocity, prediction, paddles

vars == <<score, state, next_state, balls, commands, schedule, pending,
          space, delta, ai, intent, position, velocity, prediction, paddles>>

player == <<ai, intent, paddles>>

\* Transform.translation and Velocity.linvel of a ball in flight, and what
\* predict_intersection last returned for it; only SpecBall follows them.
flight == <<position, velocity, prediction>>

GameState == {"Splash", "Playing", "Paused", "GameOver"}

Deltas == {0, MaxDelta * 50}

Min(a, b) == IF a < b THEN a ELSE b

Max(a, b) == IF a > b THEN a ELSE b

Abs(a) == IF a < 0 THEN -a ELSE a

\* ----- entities -----
\* An entity handle is <<kind, index>>.  Walls are numbered in the order
\* spawn_walls creates them; <<"ball", 0>> is the handle of a ball that no
\* longer exists.
Wall == <<"Top", "Bottom", "Left", "Right">>

StaleBall == <<"ball", 0>>

BallEntity(b) == <<"ball", b.id>>

\* ----- Timer -----
\* Timer::from_seconds, tick, reset and set_duration of a TimerMode::Once
\* timer; just_finished() is read right after the tick, so it is computed
\* from the timer before and after it.
Timer(duration) == [duration |-> duration, elapsed |-> 0, finished |-> FALSE]

tick(t, d) ==
    IF t.finished THEN t
    ELSE IF t.elapsed + d >= t.duration
         THEN [t EXCEPT !.elapsed = t.duration, !.finished = TRUE]
         ELSE [t EXCEPT !.elapsed = @ + d]

just_finished(before, after) == ~before.finished /\ after.finished

timer_reset(t) == [t EXCEPT !.elapsed = 0, !.finished = FALSE]

set_duration(t, duration) == [t EXCEPT !.duration = duration]

\* ----- Score (score.rs) -----

new(server) ==
    [p1 |-> 0, p2 |-> 0, server_is_p1 |-> server, serve_count |-> 0,
     serve_timer |-> Timer(ServeDelay), should_serve |-> FALSE]

switch_threshold_mut(s) ==
    IF s.p1 > DeuceScore /\ s.p2 > DeuceScore THEN DeuceThreshold
    ELSE NormalThreshold

switch_threshold(s) ==
    IF s.p1 >= DeuceScore /\ s.p2 >= DeuceScore THEN DeuceThreshold
    ELSE NormalThreshold

add_point_mut(s, p1_scored) ==
    LET a == IF p1_scored THEN [s EXCEPT !.p1 = @ + 1]
                          ELSE [s EXCEPT !.p2 = @ + 1]
        b == [a EXCEPT !.serve_count = @ + 1]
    IN  IF b.serve_count > switch_threshold(b)
        THEN [b EXCEPT !.server_is_p1 = ~@, !.serve_count = 0]
        ELSE b

add_point(s, p1_scored) ==
    LET a == IF p1_scored THEN [s EXCEPT !.p1 = @ + 1]
                          ELSE [s EXCEPT !.p2 = @ + 1]
        b == [a EXCEPT !.serve_count = @ + 1]
    IN  IF b.serve_count >= switch_threshold(b)
        THEN [b EXCEPT !.server_is_p1 = ~@, !.serve_count = 0]
        ELSE b

p1_wins_mut(s) == s.p1 >= WinScore /\ s.p1 >= s.p2 + 1

p1_wins(s) == s.p1 >= WinScore /\ s.p1 >= s.p2 + WinLead

p2_wins(s) == s.p2 >= WinScore /\ s.p2 >= s.p1 + WinLead

Score_check_victory(s) ==
    IF p1_wins(s) THEN TRUE
    ELSE IF p2_wins(s) THEN TRUE
    ELSE FALSE

reset_mut(s, server) ==
    [s EXCEPT !.p1 = 0, !.p2 = 0, !.server_is_p1 = server,
              !.serve_count = 0]

reset(s, server) ==
    [s EXCEPT !.p1 = 0, !.p2 = 0, !.server_is_p1 = server,
              !.serve_count = 0, !.serve_timer = timer_reset(@),
              !.should_serve = FALSE]

\* ----- deferred commands -----

Despawn(e) == [op |-> "despawn", entity |-> e, served_by_p1 |-> FALSE]

Spawn(served_by_p1) ==
    [op |-> "spawn", entity |-> StaleBall, served_by_p1 |-> served_by_p1]

\* create_ball (ball.rs): queues the spawn of a ball moving away from the
\* server.
create_ball(served_by_p1) == Spawn(served_by_p1)

\* Transform::from_xyz(0.0, 0.0, 0.0) of a new ball.
initial_position == <<0, 0>>

initial_velocity_mut(served_by_p1) ==
    <<MIN_VELOCITY * (IF served_by_p1 THEN -1 ELSE 1), 0>>

\* Velocity::linear(initial_velocity) of a new ball.
initial_velocity(served_by_p1) ==
    <<MIN_VELOCITY * (IF served_by_p1 THEN 1 ELSE -1), 0>>

FreeIds(bs) == (1..MaxBalls) \ {b.id : b \in bs}

NewId(bs) == CHOOSE i \in FreeIds(bs) : \A j \in FreeIds(bs) : i <= j

ApplyOne(c, bs) ==
    IF c.op = "despawn"
    THEN {b \in bs : BallEntity(b) # c.entity}
    ELSE IF FreeIds(bs) = {} THEN bs
    ELSE bs \cup {[id |-> NewId(bs), served_by_p1 |-> c.served_by_p1,
                   stepped |-> FALSE]}

RECURSIVE Apply(_, _)
Apply(cmds, bs) ==
    IF cmds = <<>> THEN bs
    ELSE Apply(Tail(cmds), ApplyOne(Head(cmds), bs))

\* The balls of a query, in iteration order.
RECURSIVE BallSeq(_)
BallSeq(bs) ==
    IF bs = {} THEN <<>>
    ELSE LET b == CHOOSE x \in bs : \A y \in bs : x.id <= y.id
         IN  <<b>> \o BallSeq(bs \ {b})

DespawnAll(bs) ==
    [i \in 1..Len(BallSeq(bs)) |-> Despawn(BallEntity(BallSeq(bs)[i]))]

\* ----- ball.rs -----

cleanup_ball_mut(bs) == <<>>

cleanup_ball(bs) == DespawnAll(bs)

\* Vec2::length: the square root, found by bisection; it is exact on the
\* velocities of SpecBall.
RECURSIVE sqrt_between(_, _, _)
sqrt_between(s, lo, hi) ==
    IF lo = hi THEN lo
    ELSE LET mid == (lo + hi + 1) \div 2
         IN  IF mid * mid <= s THEN sqrt_between(s, mid, hi)
             ELSE sqrt_between(s, lo, mid - 1)

length(v) ==
    sqrt_between(v[1] * v[1] + v[2] * v[2], 0, Abs(v[1]) + Abs(v[2]))

\* current_velocity.normalize() * new_speed
rescale(v, current_speed, new_speed) ==
    <<(v[1] * new_speed) \div current_speed,
      (v[2] * new_speed) \div current_speed>>

maintain_ball_velocity_mut(v) ==
    LET current_speed == length(v)
        new_speed == IF Abs(current_speed) < MIN_VELOCITY THEN MIN_VELOCITY
                     ELSE current_speed
    IN  IF current_speed # 0 THEN rescale(v, current_speed, new_speed)
        ELSE v

maintain_ball_velocity_mut4(v) ==
    LET current_speed == length(v)
        new_speed == IF Abs(current_speed) > MAX_VELOCITY THEN MAX_VELOCITY
                     ELSE current_speed
    IN  IF current_speed # 0 THEN rescale(v, current_speed, new_speed)
        ELSE v

maintain_ball_velocity_mut2(v) ==
    LET current_speed == length(v)
        new_speed == IF Abs(current_speed) < MIN_VELOCITY THEN MIN_VELOCITY
                     ELSE IF Abs(current_speed) > MAX_VELOCITY
                     THEN MAX_VELOCITY
                     ELSE current_speed
    IN  IF current_speed # 0
        THEN rescale(<<Abs(v[1]), Abs(v[2])>>, current_speed, new_speed)
        ELSE v

maintain_ball_velocity_mut3(v) ==
    LET current_speed == length(v)
        new_speed == IF Abs(current_speed) < MIN_VELOCITY THEN MIN_VELOCITY
                     ELSE IF Abs(current_speed) > MAX_VELOCITY
                     THEN MAX_VELOCITY
                     ELSE current_speed
    IN  IF current_speed # 0 THEN rescale(v, current_speed, new_speed)
        ELSE <<new_speed, 0>>

\* The body of the loop of maintain_ball_velocity, on one ball's linvel.
maintain_ball_velocity(v) ==
    LET current_speed == length(v)
        new_speed == IF Abs(current_speed) < MIN_VELOCITY THEN MIN_VELOCITY
                     ELSE IF Abs(current_speed) > MAX_VELOCITY
                     THEN MAX_VELOCITY
                     ELSE current_speed
    IN  IF current_speed # 0 THEN rescale(v, current_speed, new_speed)
        ELSE v

\* ----- score.rs: systems -----

on_resume_mut(s, bs) ==
    IF bs = {}
    THEN <<create_ball(s.server_is_p1)>>
    ELSE <<>>

on_resume(s, bs) ==
    IF bs = {} /\ ~s.should_serve
    THEN <<create_ball(s.server_is_p1)>>
    ELSE <<>>

\* A collision notification.
Started(e1, e2) == [kind |-> "Started", e1 |-> e1, e2 |-> e2]

Stopped(e1, e2) == [kind |-> "Stopped", e1 |-> e1, e2 |-> e2]

FindBall_mut(bs, ev) ==
    IF bs = {} THEN {}
    ELSE {CHOOSE x \in bs : \A y \in bs : x.id <= y.id}

\* ball_query.iter().find(|e| *e == *e1 || *e == *e2)
FindBall(bs, ev) ==
    LET m == {b \in bs : BallEntity(b) = ev.e1 \/ BallEntity(b) = ev.e2}
    IN  IF m = {} THEN {}
        ELSE {CHOOSE x \in m : \A y \in m : x.id <= y.id}

\* wall_query.iter().find(|(e, _)| *e == *e1 || *e == *e2).map(|(_, w)| w)
FindWall(ev) ==
    LET m == {k \in 1..4 : <<"wall", k>> = ev.e1 \/ <<"wall", k>> = ev.e2}
    IN  IF m = {} THEN {}
        ELSE {Wall[CHOOSE x \in m : \A y \in m : x <= y]}

\* One iteration of the loop of handle_scoring, on the pair
\* [score, commands].
scoring_step_mut(r, bs, ev) ==
    IF ev.kind = "Started"
       /\ (\E b \in bs : BallEntity(b) = ev.e1)
       /\ FindWall(ev) # {}
    THEN LET ball == CHOOSE b \in bs : BallEntity(b) = ev.e1
             wall == CHOOSE w \in FindWall(ev) : TRUE
         IN  IF wall = "Left"
             THEN [score |-> [add_point(r.score, FALSE)
                                EXCEPT !.should_serve = TRUE],
                   commands |-> Append(r.commands, Despawn(BallEntity(ball)))]
             ELSE IF wall = "Right"
             THEN [score |-> [add_point(r.score, TRUE)
                                EXCEPT !.should_serve = TRUE],
                   commands |-> Append(r.commands, Despawn(BallEntity(ball)))]
             ELSE r
    ELSE r

scoring_step(r, bs, ev) ==
    IF ev.kind = "Started" /\ FindBall(bs, ev) # {} /\ FindWall(ev) # {}
    THEN LET ball == CHOOSE b \in FindBall(bs, ev) : TRUE
             wall == CHOOSE w \in FindWall(ev) : TRUE
         IN  IF wall = "Left"
             THEN [score |-> [add_point(r.score, FALSE)
                                EXCEPT !.should_serve = TRUE],
                   commands |-> Append(r.commands, Despawn(BallEntity(ball)))]
             ELSE IF wall = "Right"
             THEN [score |-> [add_point(r.score, TRUE)
                                EXCEPT !.should_serve = TRUE],
                   commands |-> Append(r.commands, Despawn(BallEntity(ball)))]
             ELSE r
    ELSE r

RECURSIVE handle_scoring(_, _, _)
handle_scoring(r, bs, events) ==
    IF events = <<>> THEN r
    ELSE handle_scoring(scoring_step(r, bs, Head(events)), bs, Tail(events))

handle_serve_delay_mut(r, d) ==
    IF r.score.should_serve
    THEN LET t == tick(r.score.serve_timer, d)
         IN  IF just_finished(r.score.serve_timer, t)
             THEN [score |-> [r.score EXCEPT !.should_serve = FALSE,
                                             !.serve_timer = t],
                   commands |-> Append(r.commands,
                                       create_ball(r.score.server_is_p1))]
             ELSE [r EXCEPT !.score.serve_timer = t]
    ELSE r

handle_serve_delay_mut2(r, d) ==
    LET t == tick(r.score.serve_timer, d)
    IN  IF r.score.should_serve /\ just_finished(r.score.serve_timer, t)
        THEN [score |-> [r.score EXCEPT !.should_serve = FALSE,
                                        !.serve_timer = timer_reset(t)],
              commands |-> Append(r.commands,
                                  create_ball(r.score.server_is_p1))]
        ELSE [r EXCEPT !.score.serve_timer = t]

handle_serve_delay(r, d) ==
    IF r.score.should_serve
    THEN LET t == tick(r.score.serve_timer, d)
         IN  IF just_finished(r.score.serve_timer, t)
             THEN [score |-> [r.score EXCEPT !.should_serve = FALSE,
                                             !.serve_timer = timer_reset(t)],
                   commands |-> Append(r.commands,
                                       create_ball(r.score.server_is_p1))]
             ELSE [r EXCEPT !.score.serve_timer = t]
    ELSE r

\* ----- player.rs: the paddles and their punch -----
\* Entity handles of the paddles, in the order spawn_players creates them:
\* 1 is P1 on the left, 2 is P2 on the right.
PaddleEntity(k) == <<"paddle", k>>

\* Transform.translation.x and the PunchState of the paddle create_paddle
\* spawns.
create_paddle(is_player_one) ==
    LET x_pos == IF is_player_one THEN left_x ELSE right_x
    IN  [x |-> x_pos, timer |-> Timer(punch_duration),
         is_punching |-> FALSE, rest_x |-> x_pos]

spawn_players == <<create_paddle(TRUE), create_paddle(FALSE)>>

FindPaddle_mut(ps, ev) ==
    LET m == {k \in DOMAIN ps :
                 PaddleEntity(k) = ev.e1 \/ PaddleEntity(k) = ev.e2}
    IN  IF m = {} THEN {}
        ELSE {CHOOSE x \in m : \A y \in m : x <= y}

\* The first paddle of paddle_query that the notification names and that
\* passes the test of the inner loop.
FindPaddle(ps, ev) ==
    LET m == {k \in DOMAIN ps :
                 /\ PaddleEntity(k) = ev.e1 \/ PaddleEntity(k) = ev.e2
                 /\ ~ps[k].is_punching}
    IN  IF m = {} THEN {}
        ELSE {CHOOSE x \in m : \A y \in m : x <= y}

\* One iteration of the event loop of handle_paddle_collisions.
punch_step(ps, ev, ball_entity) ==
    IF ev.kind = "Started" /\ (ev.e1 = ball_entity \/ ev.e2 = ball_entity)
    THEN LET m == FindPaddle(ps, ev)
         IN  IF m = {} THEN ps
             ELSE LET k == CHOOSE x \in m : TRUE
                      punch_direction == IF ps[k].x < 0 THEN 1 ELSE -1
                  IN  [ps EXCEPT
                          ![k].is_punching = TRUE,
                          ![k].timer = timer_reset(@),
                          ![k].x = @ + punch_distance * punch_direction]
    ELSE ps

RECURSIVE punch_events(_, _, _)
punch_events(ps, events, ball_entity) ==
    IF events = <<>> THEN ps
    ELSE punch_events(punch_step(ps, Head(events), ball_entity),
                      Tail(events), ball_entity)

\* ball_query.get_single() fails unless there is exactly one ball.
handle_paddle_collisions(ps, events, bs) ==
    IF Cardinality(bs) # 1 THEN ps
    ELSE punch_events(ps, events, BallEntity(CHOOSE b \in bs : TRUE))

update_paddle_punch(ps, d) ==
    [k \in DOMAIN ps |->
        IF ps[k].is_punching
        THEN LET t == tick(ps[k].timer, d)
             IN  IF t.finished
                 THEN [ps[k] EXCEPT !.timer = t, !.x = ps[k].rest_x,
                                    !.is_punching = FALSE]
                 ELSE [ps[k] EXCEPT !.timer = t]
        ELSE ps[k]]

\* ----- player.rs: the predictive opponent -----

Idle == [kind |-> "Idle", target |-> 0]

MovingUp(target_y) == [kind |-> "MovingUp", target |-> target_y]

MovingDown(target_y) == [kind |-> "MovingDown", target |-> target_y]

\* AiPaddle::default(); update_timer is TimerMode::Repeating and is kept as
\* its elapsed time, last_prediction as a sequence of length 0 or 1.
AiPaddle ==
    [update_timer |-> 0, move_up_timer |-> Timer(0),
     move_down_timer |-> Timer(0), movement_state |-> Idle,
     last_prediction |-> <<>>]

calculate_movement_duration_mut(current_pos, target_pos, spd, min_d, max_d, jitter) ==
    LET distance == Abs(target_pos - current_pos)
        base_duration == distance \div spd
    IN  (base_duration * (1000 + jitter)) \div 1000

\* rand::random::<f32>() * 0.1 is jitter / 1000.
calculate_movement_duration(current_pos, target_pos, spd, min_d, max_d, jitter) ==
    LET distance == Abs(target_pos - current_pos)
        base_duration == distance \div spd
        duration == (base_duration * (1000 + jitter)) \div 1000
    IN  Max(min_d, Min(duration, max_d))

predict_intersection_mut(ball_pos, ball_vel, paddle_x) ==
    IF ball_vel[1] # 0
    THEN <<ball_pos[2]
           + (ball_vel[2] * (paddle_x - ball_pos[1])) \div ball_vel[1]>>
    ELSE <<>>

\* Some(y) is <<y>>, None is <<>>; the inputs are drawn so that the
\* division is exact.
predict_intersection(ball_pos, ball_vel, paddle_x) ==
    LET moving_toward ==
            \/ paddle_x > ball_pos[1] /\ ball_vel[1] > 0
            \/ paddle_x < ball_pos[1] /\ ball_vel[1] < 0
    IN  IF moving_toward
        THEN <<ball_pos[2]
               + (ball_vel[2] * (paddle_x - ball_pos[1])) \div ball_vel[1]>>
        ELSE <<>>

start_movement_mut(a, current_y, target_y, jitter) ==
    LET diff == target_y - current_y
        duration == calculate_movement_duration(
                        current_y, target_y, speed, min_duration,
                        max_duration, jitter)
    IN  IF Abs(diff) > movement_deadzone
        THEN IF diff > 0
             THEN [a EXCEPT !.movement_state = MovingUp(target_y),
                            !.move_up_timer =
                                timer_reset(set_duration(@, duration))]
             ELSE [a EXCEPT !.movement_state = MovingDown(target_y),
                            !.move_down_timer =
                                timer_reset(set_duration(@, duration))]
        ELSE [a EXCEPT !.movement_state = Idle]

\* The block both branches of the decision end with: start a movement
\* toward target_y if it is outside the deadzone.
start_movement(a, current_y, target_y, jitter) ==
    LET diff == target_y - current_y
        duration == calculate_movement_duration(
                        current_y, target_y, speed, min_duration,
                        max_duration, jitter)
    IN  IF Abs(diff) > movement_deadzone
        THEN IF diff > 0
             THEN [a EXCEPT !.movement_state = MovingUp(target_y),
                            !.move_up_timer =
                                timer_reset(set_duration(@, duration))]
             ELSE [a EXCEPT !.movement_state = MovingDown(target_y),
                            !.move_down_timer =
                                timer_reset(set_duration(@, duration))]
        ELSE a

decide_mut(a, query, paddle_y, rnd) ==
    IF Len(query) = 1
    THEN LET predicted == predict_intersection(query[1].pos, query[1].vel,
                                               right_x)
             predicted_y == IF predicted # <<>> THEN predicted[1]
                            ELSE query[1].pos[2]
             optimal_y == predicted_y
                          + (IF query[1].vel[2] > 0 THEN -hit_point_offset
                             ELSE hit_point_offset)
             moved == start_movement(a, paddle_y, optimal_y, rnd.jitter)
         IN  [moved EXCEPT !.last_prediction = <<predicted_y>>]
    ELSE [a EXCEPT !.movement_state = Idle, !.last_prediction = <<>>]

decide_mut2(a, query, paddle_y, rnd) ==
    IF Len(query) = 1
    THEN LET predicted == predict_intersection(query[1].pos, query[1].vel,
                                               right_x)
         IN  IF predicted # <<>>
             THEN LET predicted_y == predicted[1]
                      miss_y == IF predicted_y > 0 THEN -miss_distance
                                ELSE miss_distance
                      error == IF rnd.error < error_chance
                               THEN IF rnd.sign
                                    THEN (rnd.amount * max_error) \div 50
                                    ELSE -((rnd.amount * max_error) \div 50)
                               ELSE 0
                      optimal_y == predicted_y + error
                                   + (IF query[1].vel[2] > 0
                                      THEN -hit_point_offset
                                      ELSE hit_point_offset)
                      moved == IF rnd.miss < miss_chance
                               THEN start_movement(a, paddle_y, miss_y,
                                                   rnd.jitter)
                               ELSE start_movement(a, paddle_y, optimal_y,
                                                   rnd.jitter)
                  IN  [moved EXCEPT !.last_prediction = <<predicted_y>>]
             ELSE a
    ELSE a

\* The decision taken when the update timer fires: query is the sequence of
\* the balls' [pos, vel], rnd the random draws of this call.
decide(a, query, paddle_y, rnd) ==
    IF Len(query) = 1
    THEN LET predicted == predict_intersection(query[1].pos, query[1].vel,
                                               right_x)
         IN  IF predicted # <<>>
             THEN LET predicted_y == predicted[1]
                      miss_y == IF predicted_y > 0 THEN -miss_distance
                                ELSE miss_distance
                      error == IF rnd.error < error_chance
                               THEN IF rnd.sign
                                    THEN (rnd.amount * max_error) \div 100
                                    ELSE -((rnd.amount * max_error) \div 100)
                               ELSE 0
                      optimal_y == predicted_y + error
                                   + (IF query[1].vel[2] > 0
                                      THEN -hit_point_offset
                                      ELSE hit_point_offset)
                      moved == IF rnd.miss < miss_chance
                               THEN start_movement(a, paddle_y, miss_y,
                                                   rnd.jitter)
                               ELSE start_movement(a, paddle_y, optimal_y,
                                                   rnd.jitter)
                  IN  [moved EXCEPT !.last_prediction = <<predicted_y>>]
             ELSE a
    ELSE a

ai_decision_making_mut(a, d, query, paddle_y, rnd) ==
    LET up == tick(a.move_up_timer, d)
        down == tick(a.move_down_timer, d)
        b == [a EXCEPT !.move_up_timer = up, !.move_down_timer = down,
                       !.update_timer = (@ + d) % update_rate]
    IN  IF a.update_timer + d >= update_rate
        THEN decide(b, query, paddle_y, rnd)
        ELSE b

ai_decision_making_mut2(a, d, query, paddle_y, rnd) ==
    LET up == tick(a.move_up_timer, d)
        down == tick(a.move_down_timer, d)
        ms == IF a.movement_state.kind = "MovingUp" /\ up.finished THEN Idle
              ELSE IF a.movement_state.kind = "MovingDown" /\ down.finished
              THEN Idle
              ELSE a.movement_state
        b == [a EXCEPT !.move_up_timer = up, !.move_down_timer = down,
                       !.movement_state = ms,
                       !.update_timer = (@ + d) % update_rate]
    IN  decide(b, query, paddle_y, rnd)

ai_decision_making(a, d, query, paddle_y, rnd) ==
    LET up == tick(a.move_up_timer, d)
        down == tick(a.move_down_timer, d)
        ms == IF a.movement_state.kind = "MovingUp" /\ up.finished THEN Idle
              ELSE IF a.movement_state.kind = "MovingDown" /\ down.finished
              THEN Idle
              ELSE a.movement_state
        b == [a EXCEPT !.move_up_timer = up, !.move_down_timer = down,
                       !.movement_state = ms,
                       !.update_timer = (@ + d) % update_rate]
    IN  IF a.update_timer + d >= update_rate
        THEN decide(b, query, paddle_y, rnd)
        ELSE b

paddle_movement_mut(a, d, paddle_y) ==
    LET move_amount == speed * d
    IN  IF a.movement_state.kind = "MovingUp" /\ ~a.move_up_timer.finished
        THEN move_amount
        ELSE IF a.movement_state.kind = "MovingDown"
                /\ ~a.move_down_timer.finished
        THEN -move_amount
        ELSE 0

\* The y of controller.translation that paddle_movement sets for the AI
\* paddle.
paddle_movement(a, d, paddle_y) ==
    LET move_amount == speed * d
    IN  IF a.movement_state.kind = "MovingUp" /\ ~a.move_up_timer.finished
        THEN IF paddle_y < a.movement_state.target THEN move_amount ELSE 0
        ELSE IF a.movement_state.kind = "MovingDown"
                /\ ~a.move_down_timer.finished
        THEN IF paddle_y > a.movement_state.target THEN -move_amount ELSE 0
        ELSE 0

\* ----- what a frame can deliver -----
\* Only a ball that has been through a physics step can be named by a
\* notification; every other ball handle is stale.
SteppedBalls(bs) == {BallEntity(b) : b \in {x \in bs : x.stepped}}

Notifications(bs) ==
    {Started(b, <<"wall", 3>>) : b \in SteppedBalls(bs)}
    \cup {Started(<<"wall", 4>>, b) : b \in SteppedBalls(bs)}
    \cup {Started(b, <<"wall", 1>>) : b \in SteppedBalls(bs)}
    \cup {Started(StaleBall, <<"wall", 3>>)}

NotificationsAi(bs) ==
    {Started(<<"wall", 4>>, b) : b \in SteppedBalls(bs)}

Batches(S) == UNION {[1..n -> S] : n \in 0..MaxEvents}

\* Position and velocity of the ball as the physics step left them: one
\* ball flying toward the AI paddle and one flying away from it.
BallKinematics ==
    {[pos |-> <<0, 0>>, vel |-> <<700, 0>>],
     [pos |-> <<0, 0>>, vel |-> <<-700, 0>>]}

PaddleYs == {-100, 100}

\* The random draws of one decision: an accurate one, one with a
\* prediction error, and a deliberate miss.
Draws ==
    {[miss |-> 50, error |-> 50, amount |-> 0, sign |-> FALSE, jitter |-> 0],
     [miss |-> 50, error |-> 4, amount |-> 60, sign |-> TRUE, jitter |-> 0],
     [miss |-> 4, error |-> 50, amount |-> 0, sign |-> FALSE, jitter |-> 99]}

RECURSIVE Queries(_)
Queries(n) ==
    IF n = 0 THEN {<<>>}
    ELSE {Append(q, k) : q \in Queries(n - 1), k \in BallKinematics}

\* ----- the schedules -----

UpdateSystems_mut2(st, with_player) ==
    {"handle_pause"}
    \cup (IF st = "Splash" THEN {"handle_splash_input"} ELSE {})
    \cup (IF st = "GameOver" THEN {"handle_endgame_input"} ELSE {})
    \cup (IF st \in {"Playing", "Paused"}
          THEN {"handle_scoring", "handle_serve_delay", "check_victory"}
          ELSE {})
    \cup (IF st = "Playing" /\ with_player
          THEN {"ai_decision_making", "paddle_movement"}
          ELSE {})

UpdateSystems_mut(st, with_player) ==
    {"handle_pause"}
    \cup (IF st = "Splash" THEN {"handle_splash_input"} ELSE {})
    \cup (IF st = "GameOver" THEN {"handle_endgame_input"} ELSE {})
    \cup (IF st = "Playing"
          THEN {"handle_scoring", "handle_serve_delay", "check_victory"}
          ELSE {})
    \cup (IF with_player
          THEN {"ai_decision_making", "paddle_movement"}
          ELSE {})

UpdateSystems(st, with_player) ==
    {"handle_pause"}
    \cup (IF st = "Splash" THEN {"handle_splash_input"} ELSE {})
    \cup (IF st = "GameOver" THEN {"handle_endgame_input"} ELSE {})
    \cup (IF st = "Playing"
          THEN {"handle_scoring", "handle_serve_delay", "check_victory"}
          ELSE {})
    \cup (IF st = "Playing" /\ with_player
          THEN {"ai_decision_making", "paddle_movement"}
          ELSE {})

Init ==
    /\ \E server \in BOOLEAN : score = new(server)
    /\ state = "Splash"
    /\ next_state = "Unchanged"
    /\ balls = {}
    /\ commands = <<>>
    /\ schedule = "StateTransition"
    /\ pending = {}
    /\ space = FALSE
    /\ delta = 0
    /\ ai = AiPaddle
    /\ intent = <<>>
    /\ position = <<0, 0>>
    /\ velocity = <<0, 0>>
    /\ prediction = <<>>
    /\ paddles = spawn_players

\* The balls after the OnExit and OnEnter schedules of a transition from
\* `from` to `to`; the commands of each schedule are applied when it ends.
AfterExit(from, bs) ==
    IF from = "Playing" THEN Apply(cleanup_ball(bs), bs) ELSE bs

AfterEnter(to, s, bs) ==
    IF to = "Playing" THEN Apply(on_resume(s, bs), bs) ELSE bs

\* StateTransition schedule, preceded by the frame's input: the elapsed
\* time and the edge of the Space key.
Transition(with_player) ==
    /\ schedule = "StateTransition"
    /\ IF next_state # "Unchanged" /\ next_state # state
       THEN /\ state' = next_state
            /\ balls' = AfterEnter(next_state, score, AfterExit(state, balls))
       ELSE UNCHANGED <<state, balls>>
    /\ next_state' = "Unchanged"
    /\ schedule' = "Update"
    /\ pending' = UpdateSystems(state', with_player)
    /\ space' \in BOOLEAN
    /\ delta' \in Deltas
    /\ UNCHANGED <<score, commands, player, flight>>

StateTransition == Transition(FALSE)

Run(sys) ==
    /\ schedule = "Update"
    /\ sys \in pending
    /\ pending' = pending \ {sys}
    /\ UNCHANGED <<state, balls, schedule, space, delta, flight>>

handle_pause_mut ==
    /\ Run("handle_pause")
    /\ IF space
       THEN IF state = "Paused" THEN next_state' = "Playing"
            ELSE next_state' = "Paused"
       ELSE UNCHANGED next_state
    /\ UNCHANGED <<score, commands, player>>

handle_pause ==
    /\ Run("handle_pause")
    /\ IF space
       THEN IF state = "Playing" THEN next_state' = "Paused"
            ELSE IF state = "Paused" THEN next_state' = "Playing"
            ELSE UNCHANGED next_state
       ELSE UNCHANGED next_state
    /\ UNCHANGED <<score, commands, player>>

handle_splash_input ==
    /\ Run("handle_splash_input")
    /\ IF space THEN next_state' = "Playing" ELSE UNCHANGED next_state
    /\ UNCHANGED <<score, commands, player>>

handle_endgame_input ==
    /\ Run("handle_endgame_input")
    /\ IF space
       THEN /\ \E server \in BOOLEAN : score' = reset(score, server)
            /\ next_state' = "Playing"
       ELSE UNCHANGED <<score, next_state>>
    /\ UNCHANGED <<commands, player>>

Scoring(S) ==
    /\ Run("handle_scoring")
    /\ \E events \in Batches(S) :
         LET r == handle_scoring([score |-> score, commands |-> commands],
                                 balls, events)
         IN  /\ r.score.p1 <= MaxScore
             /\ r.score.p2 <= MaxScore
             /\ score' = r.score
             /\ commands' = r.commands
    /\ UNCHANGED <<next_state, player>>

HandleScoring == Scoring(Notifications(balls))

HandleServeDelay ==
    /\ Run("handle_serve_delay")
    /\ LET r == handle_serve_delay([score |-> score, commands |-> commands],
                                   delta)
       IN  /\ score' = r.score
           /\ commands' = r.commands
    /\ UNCHANGED <<next_state, player>>

check_victory_mut ==
    /\ Run("check_victory")
    /\ IF score.p1 >= WinScore \/ score.p2 >= WinScore
       THEN /\ commands' = commands \o DespawnAll(balls)
            /\ next_state' = "GameOver"
       ELSE UNCHANGED <<commands, next_state>>
    /\ UNCHANGED <<score, player>>

check_victory ==
    /\ Run("check_victory")
    /\ IF Score_check_victory(score)
       THEN /\ commands' = commands \o DespawnAll(balls)
            /\ next_state' = "GameOver"
       ELSE UNCHANGED <<commands, next_state>>
    /\ UNCHANGED <<score, player>>

\* The end of Update: the deferred commands of its systems are applied.
ApplyDeferred ==
    /\ schedule = "Update"
    /\ pending = {}
    /\ balls' = Apply(commands, balls)
    /\ commands' = <<>>
    /\ schedule' = "PostUpdate"
    /\ UNCHANGED <<score, state, next_state, pending, space, delta, player,
                   flight>>

\* PostUpdate: the physics step; every ball alive has now been simulated
\* and the character controller has consumed its translation (intent is
\* controller.translation: <<>> for None, <<y>> for Some).
PostUpdate ==
    /\ schedule = "PostUpdate"
    /\ balls' = {[b EXCEPT !.stepped = TRUE] : b \in balls}
    /\ intent' = <<>>
    /\ schedule' = "StateTransition"
    /\ UNCHANGED <<score, state, next_state, commands, pending, space, delta,
                   ai, paddles, flight>>

Next ==
    \/ StateTransition
    \/ handle_pause
    \/ handle_splash_input
    \/ handle_endgame_input
    \/ HandleScoring
    \/ HandleServeDelay
    \/ check_victory
    \/ ApplyDeferred
    \/ PostUpdate

Spec == Init /\ [][Next]_vars

\* The runner executes every schedule of every frame and never stops: a
\* step that is possible is eventually taken, so every system due in a
\* frame runs and the next frame begins.
SpecLive == Init /\ [][Next]_vars /\ WF_vars(Next)

\* ----- the scoring rules alone: any sequence of add_point and reset -----

AddPoint(p1_scored) ==
    /\ score.p1 < MaxScore
    /\ score.p2 < MaxScore
    /\ score' = add_point(score, p1_scored)
    /\ UNCHANGED <<state, next_state, balls, commands, schedule, pending,
                   space, delta, player, flight>>

Reset ==
    /\ score.p1 + score.p2 > 0
    /\ \E server \in BOOLEAN : score' = reset(score, server)
    /\ UNCHANGED <<state, next_state, balls, commands, schedule, pending,
                   space, delta, player, flight>>

NextScore == AddPoint(TRUE) \/ AddPoint(FALSE) \/ Reset

SpecScore == Init /\ [][NextScore]_vars

\* ----- every system, PlayerPlugin included -----

StateTransitionAi == Transition(TRUE)

HandleScoringAi == Scoring(NotificationsAi(balls))

AiDecisionMaking ==
    /\ Run("ai_decision_making")
    /\ \E query \in Queries(Cardinality(balls)), paddle_y \in PaddleYs,
          rnd \in Draws :
         ai' = ai_decision_making(ai, delta, query, paddle_y, rnd)
    /\ UNCHANGED <<score, commands, next_state, intent, paddles>>

\* .chain(): paddle_movement runs after ai_decision_making.
PaddleMovement ==
    /\ Run("paddle_movement")
    /\ "ai_decision_making" \notin pending
    /\ \E paddle_y \in PaddleYs :
         intent' = <<paddle_movement(ai, delta, paddle_y)>>
    /\ UNCHANGED <<score, commands, next_state, ai, paddles>>

NextAi ==
    \/ StateTransitionAi
    \/ handle_pause
    \/ handle_splash_input
    \/ handle_endgame_input
    \/ HandleScoringAi
    \/ HandleServeDelay
    \/ check_victory
    \/ AiDecisionMaking
    \/ PaddleMovement
    \/ ApplyDeferred
    \/ PostUpdate

SpecAi == Init /\ [][NextAi]_vars

\* ----- one ball in flight -----
\* The velocities the physics step can leave: rest, and the directions
\* (3,4), (4,3), (1,0), (0,1) under every sign at the speeds 500, 1000 and
\* 2500, below, inside and above the range of the governor.
Directions == {<<3, 4>>, <<4, 3>>, <<5, 0>>, <<0, 5>>}

Signs == {-1, 1}

Scales == {0, 100, 200, 500}

Velocities ==
    {<<sx * d[1] * k, sy * d[2] * k>> :
        sx \in Signs, sy \in Signs, d \in Directions, k \in Scales}

\* Left of the AI paddle, on its plane and right of it.
Positions == {<<x, y>> : x \in {-435, 165, right_x, 777}, y \in {0, 100}}

InitBall ==
    /\ score = new(TRUE)
    /\ state = "Playing"
    /\ next_state = "Unchanged"
    /\ balls = {[id |-> 1, served_by_p1 |-> TRUE, stepped |-> TRUE]}
    /\ commands = <<>>
    /\ schedule = "Update"
    /\ pending = {}
    /\ space = FALSE
    /\ delta = 0
    /\ ai = AiPaddle
    /\ intent = <<>>
    /\ position \in Positions
    /\ velocity \in Velocities
    /\ prediction = <<>>
    /\ paddles = spawn_players

\* Update: the governor runs once on the ball.
MaintainBallVelocity ==
    /\ schedule = "Update"
    /\ velocity' = maintain_ball_velocity(velocity)
    /\ schedule' = "PostUpdate"
    /\ UNCHANGED <<score, state, next_state, balls, commands, pending, space,
                   delta, player, position, prediction>>

\* Update: the opponent reads the ball; no order is set between it and the
\* governor.
Predict ==
    /\ schedule = "Update"
    /\ prediction' = predict_intersection(position, velocity, right_x)
    /\ UNCHANGED <<score, state, next_state, balls, commands, schedule,
                   pending, space, delta, player, position, velocity>>

\* PostUpdate: the physics step moves the ball and, on a contact, changes
\* its velocity.
Physics ==
    /\ schedule = "PostUpdate"
    /\ position' \in Positions
    /\ velocity' \in Velocities \cup {velocity}
    /\ balls' = {[b EXCEPT !.stepped = TRUE] : b \in balls}
    /\ schedule' = "Update"
    /\ UNCHANGED <<score, state, next_state, commands, pending, space,
                   delta, player, prediction>>

\* Update of a frame whose physics step reported the ball at a scoring wall:
\* handle_scoring despawns it, and the frames that follow have no ball.
ScoreBall ==
    /\ schedule = "Update"
    /\ balls # {}
    /\ balls' = Apply(DespawnAll(balls), balls)
    /\ schedule' = "Serving"
    /\ UNCHANGED <<score, state, next_state, commands, pending, space,
                   delta, player, flight>>

\* The end of the Update in which handle_serve_delay (or on_resume) queued
\* create_ball: the command is applied and the new ball is the one in
\* flight; the governor had no ball to run on.
CreateBall ==
    /\ schedule = "Serving"
    /\ \E served_by_p1 \in BOOLEAN :
         /\ balls' = Apply(<<create_ball(served_by_p1)>>, balls)
         /\ velocity' = initial_velocity(served_by_p1)
    /\ position' = initial_position
    /\ schedule' = "PostUpdate"
    /\ UNCHANGED <<score, state, next_state, commands, pending, space,
                   delta, player, prediction>>

NextBall == MaintainBallVelocity \/ Predict \/ Physics \/ ScoreBall \/ CreateBall

SpecBall == InitBall /\ [][NextBall]_vars

\* ----- the opponent alone: PlayerPlugin in a match that stays in Playing -----
\* What the opponent can find when it looks: no ball, a ball flying level
\* toward its plane (intersection at y = 0), a ball rising toward it
\* (intersection at y = 600) and a ball flying away.
Flights ==
    {<<>>,
     <<[pos |-> <<0, 0>>, vel |-> <<700, 0>>]>>,
     <<[pos |-> <<0, 100>>, vel |-> <<right_x, 500>>]>>,
     <<[pos |-> <<0, 0>>, vel |-> <<-700, 0>>]>>}

\* Transform.translation.y of the AI paddle, as the character controller
\* and the walls left it.
PaddleRange == {-400, -100, 100, 400}

\* Frame times of the opponent's frames: none, a short and a long frame.
FrameTimes == Deltas \cup {MaxDelta * 20}

InitPlayer ==
    /\ score = new(TRUE)
    /\ state = "Playing"
    /\ next_state = "Unchanged"
    /\ balls = {}
    /\ commands = <<>>
    /\ schedule = "StateTransition"
    /\ pending = {}
    /\ space = FALSE
    /\ delta = 0
    /\ ai = AiPaddle
    /\ intent = <<>>
    /\ position = <<0, 0>>
    /\ velocity = <<0, 0>>
    /\ prediction = <<>>
    /\ paddles = spawn_players

\* A frame of Playing begins: Time is updated and the chained systems of
\* PlayerPlugin are due.
PlayingFrame ==
    /\ schedule = "StateTransition"
    /\ schedule' = "Update"
    /\ pending' = {"ai_decision_making", "paddle_movement"}
    /\ delta' \in FrameTimes
    /\ UNCHANGED <<score, state, next_state, balls, commands, space, player,
                   flight>>

OpponentDecision ==
    /\ Run("ai_decision_making")
    /\ \E query \in Flights, paddle_y \in PaddleRange, rnd \in Draws :
         ai' = ai_decision_making(ai, delta, query, paddle_y, rnd)
    /\ UNCHANGED <<score, commands, next_state, intent, paddles>>

OpponentMovement ==
    /\ Run("paddle_movement")
    /\ "ai_decision_making" \notin pending
    /\ \E paddle_y \in PaddleRange :
         intent' = <<paddle_movement(ai, delta, paddle_y)>>
    /\ UNCHANGED <<score, commands, next_state, ai, paddles>>

NextPlayer ==
    \/ PlayingFrame
    \/ OpponentDecision
    \/ OpponentMovement
    \/ ApplyDeferred
    \/ PostUpdate

SpecPlayer == InitPlayer /\ [][NextPlayer]_vars

\* ----- the punch of the paddles, frame by frame -----

\* The ball as the other systems left it at the start of a frame: none
\* (scored, serve pending) or the one ball in play.
BallStates == {{}, {[id |-> 1, served_by_p1 |-> TRUE, stepped |-> TRUE]}}

\* Frame times: none, two short ones and one longer than the punch.
PunchTimes == Deltas \cup {MaxDelta * 5, MaxDelta * 6}

\* The collision notifications of one frame that the punch can meet: a ball
\* (the one in play, or one already despawned) against either paddle, in
\* either order of the two entities, a contact that ended, a ball against a
\* wall and a paddle against a wall.
Contacts(bs) ==
    LET B == SteppedBalls(bs) \cup {StaleBall}
    IN  {Started(b, PaddleEntity(1)) : b \in B}
        \cup {Started(PaddleEntity(2), b) : b \in B}
        \cup {Stopped(b, PaddleEntity(1)) : b \in B}
        \cup {Started(b, <<"wall", 1>>) : b \in B}
        \cup {Started(PaddleEntity(2), <<"wall", 1>>)}

InitPunch ==
    /\ score = new(TRUE)
    /\ state = "Playing"
    /\ next_state = "Unchanged"
    /\ balls = {}
    /\ commands = <<>>
    /\ schedule = "StateTransition"
    /\ pending = {}
    /\ space = FALSE
    /\ delta = 0
    /\ ai = AiPaddle
    /\ intent = <<>>
    /\ position = <<0, 0>>
    /\ velocity = <<0, 0>>
    /\ prediction = <<>>
    /\ paddles = spawn_players

\* A frame of Playing begins: Time is updated and the last two systems of
\* PlayerPlugin's chain are due.
PunchFrame ==
    /\ schedule = "StateTransition"
    /\ schedule' = "Update"
    /\ pending' = {"handle_paddle_collisions", "update_paddle_punch"}
    /\ delta' \in PunchTimes
    /\ balls' \in BallStates
    /\ UNCHANGED <<score, state, next_state, commands, space, player, flight>>

HandlePaddleCollisions ==
    /\ Run("handle_paddle_collisions")
    /\ \E events \in Batches(Contacts(balls)) :
         paddles' = handle_paddle_collisions(paddles, events, balls)
    /\ UNCHANGED <<score, commands, next_state, ai, intent>>

\* .chain(): update_paddle_punch runs after handle_paddle_collisions.
UpdatePaddlePunch ==
    /\ Run("update_paddle_punch")
    /\ "handle_paddle_collisions" \notin pending
    /\ paddles' = update_paddle_punch(paddles, delta)
    /\ UNCHANGED <<score, commands, next_state, ai, intent>>

NextPunch ==
    \/ PunchFrame
    \/ HandlePaddleCollisions
    \/ UpdatePaddlePunch
    \/ ApplyDeferred
    \/ PostUpdate

SpecPunch == InitPunch /\ [][NextPunch]_vars

\* ----- properties -----

Flipped == score'.server_is_p1 # score.server_is_p1

\* C1: in any sequence of add_point calls the server flips on every second
\* point while not both scores are >= 10 (the counter returning to 0), and on
\* every point once both are; only the number of points decides, not who
\* scored them.
C1_ServeRotation ==
    [][score'.p1 + score'.p2 = score.p1 + score.p2 + 1 =>
         /\ Flipped <=> \/ (score'.p1 >= 10 /\ score'.p2 >= 10)
                        \/ (score'.p1 + score'.p2) % 2 = 0
         /\ Flipped => score'.serve_count = 0
         /\ ~Flipped => score'.serve_count = 1]_vars

C1_Witness ==
    /\ score.p1 = 11
    /\ score.p2 = 10
    /\ score.serve_count = 0

\* C2: check_victory is true exactly when the higher score is >= 11 and the
\* lead is >= 2, and never for both sides at once.
C2_Victory ==
    /\ Score_check_victory(score) <=>
         (Max(score.p1, score.p2) >= 11 /\ Abs(score.p1 - score.p2) >= 2)
    /\ ~(p1_wins(score) /\ p2_wins(score))

C2_Witness ==
    /\ Score_check_victory(score)
    /\ score.p1 = 10
    /\ score.p2 = 12

\* C3: serve_count is 0 or 1 and below the switch threshold of the current
\* scores (1 when both are >= 10, else 2).
C3_ServeCount ==
    /\ score.serve_count \in {0, 1}
    /\ score.serve_count < (IF score.p1 >= 10 /\ score.p2 >= 10 THEN 1 ELSE 2)

C3_Witness ==
    /\ score.serve_count = 1
    /\ score.p1 = 10
    /\ score.p2 = 9

\* A tick boundary: no system of Update has started or all have finished
\* and their commands are applied.
TickBoundary ==
    \/ schedule # "Update"
    \/ pending = UpdateSystems(state, FALSE)

\* C4: at every tick boundary, should_serve implies that no ball exists.
C4_ServePendingNoBall ==
    (TickBoundary /\ score.should_serve) => balls = {}

C4_Witness ==
    /\ schedule = "Update"
    /\ pending = UpdateSystems(state, FALSE)
    /\ state = "Playing"
    /\ score.should_serve
    /\ score.serve_timer.elapsed > 0
    /\ balls = {}

SpawnQueued == \E i \in 1..Len(commands) : commands[i].op = "spawn"

NewBall == \E b \in balls : ~b.stepped

\* C5: no ball is spawned, by the serve delay or on entering Playing, while
\* check_victory() is true of the current score.
C5_NoServeIntoWonMatch ==
    Score_check_victory(score) => ~(SpawnQueued \/ NewBall)

\* C6: the phase starts as Splash and only ever steps Splash -> Playing,
\* Playing <-> Paused and GameOver -> Playing on the Space key, and
\* Playing -> GameOver on victory.
C6_Transitions ==
    /\ state = "Splash"
    /\ [][state' # state =>
            \/ state = "Splash" /\ state' = "Playing" /\ space
            \/ state = "Playing" /\ state' = "Paused" /\ space
            \/ state = "Paused" /\ state' = "Playing" /\ space
            \/ state = "Playing" /\ state' = "GameOver"
                 /\ Score_check_victory(score)
            \/ state = "GameOver" /\ state' = "Playing" /\ space]_vars

C6_Witness ==
    /\ state = "GameOver"
    /\ next_state = "Playing"
    /\ score.p1 + score.p2 = 0

\* C7: when check_victory() is true at the end of a Playing tick, the
\* transition that tick leaves pending is the one to GameOver.
C7_VictoryEndsMatch ==
    (schedule = "StateTransition" /\ state = "Playing"
       /\ Score_check_victory(score)) => next_state = "GameOver"

\* C8: across every step that ends in a phase other than Playing, the score
\* (p1, p2, server_is_p1, serve_count, should_serve, serve timer) and the
\* AI movement state and timers are unchanged, no ball is spawned or queued
\* and no AI intent is emitted; the one exception is reset() on the restart
\* input in GameOver.
C8_GatedOutsidePlaying ==
    [][state' # "Playing" =>
         /\ ai' = ai
         /\ intent' = <<>>
         /\ balls' \subseteq balls
         /\ ~SpawnQueued'
         /\ \/ score' = score
            \/ /\ state = "GameOver"
               /\ space
               /\ score' = reset(score, score'.server_is_p1)]_vars

C8_Witness ==
    /\ state = "Paused"
    /\ schedule = "PostUpdate"
    /\ score.should_serve
    /\ score.serve_timer.elapsed > 0
    /\ ai.movement_state.kind = "MovingUp"
    /\ ~ai.move_up_timer.finished

\* C9: a ball exists only while the phase is Playing.
C9_BallOnlyWhilePlaying ==
    state # "Playing" => balls = {}

C9_Witness ==
    /\ state = "Paused"
    /\ ~score.should_serve
    /\ balls = {}

ScoringWallHit(b, k) == {Started(b, <<"wall", k>>), Started(<<"wall", k>>, b)}

DespawnsOf(cmds, e) ==
    Cardinality({i \in 1..Len(cmds) : cmds[i] = Despawn(e)})

\* C10: a notification of the ball and the Left wall, in either slot order,
\* gives exactly one point to P2 and one despawn of that ball; with the
\* Right wall, one point to P1 and one despawn.
C10_ScoringWall ==
    \A b \in balls : \A k \in {3, 4} :
      \A ev \in ScoringWallHit(BallEntity(b), k) :
        LET r == handle_scoring([score |-> score, commands |-> commands],
                                balls, <<ev>>)
        IN  /\ r.score.p2 = score.p2 + (IF k = 3 THEN 1 ELSE 0)
            /\ r.score.p1 = score.p1 + (IF k = 4 THEN 1 ELSE 0)
            /\ Len(r.commands) = Len(commands) + 1
            /\ DespawnsOf(r.commands, BallEntity(b))
                 = DespawnsOf(commands, BallEntity(b)) + 1

C10_Witness ==
    /\ schedule = "Update"
    /\ "handle_scoring" \notin pending
    /\ score.p1 = 0
    /\ score.p2 = 1
    /\ commands = <<Despawn(<<"ball", 1>>)>>

\* The entities a notification can name: the balls alive, a ball that no
\* longer exists, the four walls, a paddle and an unknown entity.
Entities(bs) ==
    {BallEntity(b) : b \in bs} \cup {StaleBall}
    \cup {<<"wall", k>> : k \in 1..4}
    \cup {<<"paddle", 2>>, <<"unknown", 0>>}

ScoringPair(bs, e1, e2) ==
    \E b \in bs : \E k \in {3, 4} :
      {e1, e2} = {BallEntity(b), <<"wall", k>>}

Unscored == [score |-> score, commands |-> commands]

\* C11: a notification that is not of a current ball and the Left or Right
\* wall (ball/Top, ball/Bottom, ball/paddle, paddle/wall, a stale or unknown
\* handle) changes neither the score record nor the queued commands: no
\* point, no rotation, no pending serve, no despawn.
C11_NonScoringNoOp ==
    (schedule = "Update" /\ "handle_scoring" \in pending) =>
      \A e1 \in Entities(balls) : \A e2 \in Entities(balls) :
        \/ ScoringPair(balls, e1, e2)
        \/ /\ handle_scoring(Unscored, balls, <<Started(e1, e2)>>) = Unscored
           /\ handle_scoring(Unscored, balls, <<Stopped(e1, e2)>>) = Unscored

C11_Witness ==
    /\ schedule = "Update"
    /\ state = "Playing"
    /\ pending = {"handle_serve_delay", "check_victory"}
    /\ \E b \in balls : b.stepped
    /\ commands = <<>>
    /\ ~score.should_serve

PointAwarded == score'.p1 + score'.p2 > score.p1 + score.p2

\* C12: every step that awards a point leaves should_serve true and the
\* serve timer at zero elapsed time, not finished: the whole serve delay is
\* still to run.
C12_PointStartsServeDelay ==
    [][PointAwarded =>
         /\ score'.should_serve
         /\ score'.serve_timer = Timer(ServeDelay)]_vars

C12_Witness ==
    /\ schedule = "Update"
    /\ pending = {"handle_serve_delay", "check_victory"}
    /\ score.p1 = 1
    /\ score.p2 = 1
    /\ score.should_serve
    /\ score.serve_timer.elapsed = 0
    /\ DespawnsOf(commands, <<"ball", 1>>) = 1

ServeDelayStep ==
    "handle_serve_delay" \in pending /\ "handle_serve_delay" \notin pending'

\* C13: a run of handle_serve_delay does nothing while should_serve is
\* false; while it is true it adds the frame's time to the serve timer, and
\* on the run at which the accumulated time reaches the delay it queues
\* exactly one ball served by the side in server_is_p1, clears should_serve
\* and resets the timer.
C13_ServeDelay ==
    [][ServeDelayStep =>
         IF ~score.should_serve
         THEN score' = score /\ commands' = commands
         ELSE IF score.serve_timer.elapsed + delta >= ServeDelay
         THEN /\ commands' = Append(commands, Spawn(score.server_is_p1))
              /\ score' = [score EXCEPT !.should_serve = FALSE,
                                        !.serve_timer = Timer(ServeDelay)]
         ELSE /\ commands' = commands
              /\ score' = [score EXCEPT !.serve_timer.elapsed = @ + delta]]_vars

C13_Witness ==
    /\ schedule = "Update"
    /\ "handle_serve_delay" \notin pending
    /\ commands = <<Spawn(score.server_is_p1)>>
    /\ ~score.should_serve
    /\ score.serve_timer.elapsed = 0
    /\ score.p1 + score.p2 = 3

InitialScore(s) ==
    /\ s.p1 = 0
    /\ s.p2 = 0
    /\ s.serve_count = 0
    /\ ~s.should_serve
    /\ s.serve_timer = Timer(ServeDelay)

RestartStep ==
    /\ state = "GameOver"
    /\ space
    /\ "handle_endgame_input" \in pending
    /\ "handle_endgame_input" \notin pending'

\* C14: the restart in GameOver leaves the score record as new() made it
\* (0-0, serve_count 0, should_serve false, timer at zero) with either
\* server; from such a record, every step that awards no point leaves it
\* as it is, and only a restart can choose the server again.
C14_Reset ==
    [][/\ RestartStep => score' \in {new(TRUE), new(FALSE)}
       /\ (InitialScore(score) /\ ~PointAwarded) =>
            /\ InitialScore(score')
            /\ RestartStep \/ score'.server_is_p1 = score.server_is_p1]_vars

C14_Witness ==
    /\ state = "GameOver"
    /\ schedule = "PostUpdate"
    /\ next_state = "Playing"
    /\ score = new(TRUE)

\* C15: at most one ball exists in every reachable state.
C15_AtMostOneBall == Cardinality(balls) <= 1

C15_Witness ==
    /\ state = "Playing"
    /\ schedule = "PostUpdate"
    /\ score.p1 + score.p2 = 2
    /\ ~score.should_serve
    /\ \E b \in balls : ~b.stepped

GovernorStep == schedule = "Update" /\ schedule' = "PostUpdate"

SquaredLength(v) == v[1] * v[1] + v[2] * v[2]

\* C16: a run of the governor on a non-zero velocity leaves the speed at 7
\* if it was below 7, at 20 if it was above 20, and the velocity as it was
\* if the speed was in [7, 20]; a further run changes nothing.
C16_RangeClamp ==
    [][(GovernorStep /\ velocity # <<0, 0>>) =>
         /\ SquaredLength(velocity) < MIN_VELOCITY * MIN_VELOCITY =>
              SquaredLength(velocity') = MIN_VELOCITY * MIN_VELOCITY
         /\ SquaredLength(velocity) > MAX_VELOCITY * MAX_VELOCITY =>
              SquaredLength(velocity') = MAX_VELOCITY * MAX_VELOCITY
         /\ (/\ SquaredLength(velocity) >= MIN_VELOCITY * MIN_VELOCITY
             /\ SquaredLength(velocity) <= MAX_VELOCITY * MAX_VELOCITY) =>
              velocity' = velocity
         /\ SquaredLength(velocity') >= MIN_VELOCITY * MIN_VELOCITY
         /\ SquaredLength(velocity') <= MAX_VELOCITY * MAX_VELOCITY
         /\ maintain_ball_velocity(velocity') = velocity']_vars

C16_Witness ==
    /\ schedule = "PostUpdate"
    /\ velocity = <<1200, -1600>>

Sign(a) == IF a > 0 THEN 1 ELSE IF a < 0 THEN -1 ELSE 0

\* C17: a run of the governor on a non-zero velocity leaves a positive
\* multiple of it: each component keeps its sign and the ratio of the
\* components is the same.
C17_DirectionPreserved ==
    [][(GovernorStep /\ velocity # <<0, 0>>) =>
         /\ Sign(velocity'[1]) = Sign(velocity[1])
         /\ Sign(velocity'[2]) = Sign(velocity[2])
         /\ velocity'[1] * velocity[2] = velocity'[2] * velocity[1]]_vars

C17_Witness ==
    /\ schedule = "PostUpdate"
    /\ velocity = <<-560, -420>>

\* C18: a run of the governor on the velocity (0, 0) leaves it (0, 0).
C18_ZeroVelocityKept ==
    [][(GovernorStep /\ velocity = <<0, 0>>) => velocity' = <<0, 0>>]_vars

C18_Witness ==
    /\ schedule = "PostUpdate"
    /\ velocity = <<0, 0>>
    /\ position = <<165, 100>>

MovingToward(p, v, x) ==
    \/ x > p[1] /\ v[1] > 0
    \/ x < p[1] /\ v[1] < 0

\* C20: predict_intersection(p, v, x) is Some(y), with y on the line
\* through p along v at x, exactly when the ball is strictly on one side of
\* x and v.x points toward x, and the travel time (x - p.x) / v.x is then
\* positive; it is None otherwise, in particular for v.x = 0 and p.x = x.
C20_PredictIntersection ==
    LET r == predict_intersection(position, velocity, right_x)
    IN  /\ MovingToward(position, velocity, right_x) =>
              /\ Len(r) = 1
              /\ velocity[1] * (r[1] - position[2])
                   = velocity[2] * (right_x - position[1])
              /\ (right_x - position[1]) * velocity[1] > 0
        /\ ~MovingToward(position, velocity, right_x) => r = <<>>
        /\ (velocity[1] = 0 \/ position[1] = right_x) => r = <<>>

C20_Witness ==
    /\ position = <<777, 100>>
    /\ velocity = <<-420, 560>>
    /\ prediction = <<116>>

\* A ball that is not moving toward the plane of the AI paddle: flying
\* away, flying along it, on it, and behind it.
NotApproaching ==
    {[pos |-> <<0, 0>>, vel |-> <<-700, 0>>],
     [pos |-> <<0, 0>>, vel |-> <<0, 700>>],
     [pos |-> <<right_x, 100>>, vel |-> <<700, 0>>],
     [pos |-> <<777, 0>>, vel |-> <<420, 560>>]}

NoDecisionQueries ==
    {<<>>} \cup Queries(2) \cup {<<k>> : k \in NotApproaching}

\* C19: at the start of every Playing frame (the AiPaddle and the frame's
\* time are then what ai_decision_making will see), on a decision cycle
\* with no ball, with more than one, or with a ball not moving toward the
\* plane of the AI paddle, the decision step
\* leaves the AiPaddle as it is, and the whole run of ai_decision_making
\* leaves last_prediction and the durations of both movement timers
\* unchanged and starts no movement: the movement state stays or, on the
\* expiry of its timer, becomes Idle.
C19_NoDecision ==
    (schedule = "Update" /\ state = "Playing"
       /\ pending = UpdateSystems(state, TRUE)) =>
      \A query \in NoDecisionQueries : \A paddle_y \in PaddleYs :
        \A rnd \in Draws :
          LET b == ai_decision_making(ai, delta, query, paddle_y, rnd)
          IN  /\ decide(ai, query, paddle_y, rnd) = ai
              /\ b.last_prediction = ai.last_prediction
              /\ b.move_up_timer.duration = ai.move_up_timer.duration
              /\ b.move_down_timer.duration = ai.move_down_timer.duration
              /\ b.movement_state \in {ai.movement_state, Idle}

C19_Witness ==
    /\ schedule = "Update"
    /\ state = "Playing"
    /\ "ai_decision_making" \notin pending
    /\ balls = {}
    /\ delta > 0
    /\ ai.update_timer = 0
    /\ ai.last_prediction = <<0>>
    /\ ai.move_up_timer.duration = 164
    /\ ai.movement_state = Idle

\* A step in which ai_decision_making runs.
DecisionStep ==
    "ai_decision_making" \in pending /\ "ai_decision_making" \notin pending'

DecisionDue == ai.update_timer + delta >= update_rate

Moving(a) == a.movement_state.kind \in {"MovingUp", "MovingDown"}

\* The timer that belongs to the movement state of a.
MoveTimer(a) ==
    IF a.movement_state.kind = "MovingUp" THEN a.move_up_timer
    ELSE a.move_down_timer

Armed(t) ==
    /\ t.elapsed = 0
    /\ ~t.finished
    /\ t.duration >= min_duration
    /\ t.duration <= max_duration

\* The decision of this run re-armed the movement of a.
ReArmed(a) == DecisionDue /\ Moving(a) /\ Armed(MoveTimer(a))

\* C21: in every run of ai_decision_making both movement timers advance by
\* the frame time (or one of them is armed afresh by a decision); the
\* movement state is Idle, MovingUp or MovingDown; an Idle state stays Idle
\* unless a decision arms a movement; a Moving state whose timer has now
\* elapsed is Idle after the run unless a decision of the same run arms a
\* movement; a Moving state whose timer has not elapsed keeps its target
\* and its advanced timer unless a decision replaces the target and
\* restarts the timer of the new direction at 0; so after every run a
\* Moving state has a timer that is not finished, with less elapsed than
\* the duration it was armed with.
C21_MovementStateMachine ==
    [][DecisionStep =>
        /\ \/ ai'.move_up_timer = tick(ai.move_up_timer, delta)
           \/ DecisionDue /\ Armed(ai'.move_up_timer)
        /\ \/ ai'.move_down_timer = tick(ai.move_down_timer, delta)
           \/ DecisionDue /\ Armed(ai'.move_down_timer)
        /\ ai'.movement_state.kind \in {"Idle", "MovingUp", "MovingDown"}
        /\ ~Moving(ai) => ai'.movement_state = Idle \/ ReArmed(ai')
        /\ Moving(ai) /\ MoveTimer(ai).elapsed + delta >= MoveTimer(ai).duration
             => ai'.movement_state = Idle \/ ReArmed(ai')
        /\ Moving(ai) /\ MoveTimer(ai).elapsed + delta < MoveTimer(ai).duration
             => \/ /\ ai'.movement_state = ai.movement_state
                   /\ MoveTimer(ai').elapsed = MoveTimer(ai).elapsed + delta
                   /\ MoveTimer(ai').duration = MoveTimer(ai).duration
                \/ ReArmed(ai')
        /\ Moving(ai')
             => /\ ~MoveTimer(ai').finished
                /\ MoveTimer(ai').elapsed < MoveTimer(ai').duration
                /\ MoveTimer(ai').duration <= max_duration]_vars

\* A decision made while the paddle was moving up replaced the movement:
\* the paddle now moves down on a fresh timer while the timer of the
\* replaced movement is still running.
C21_Witness ==
    /\ ai.movement_state.kind = "MovingDown"
    /\ ai.move_down_timer.elapsed = 0
    /\ ~ai.move_up_timer.finished
    /\ ai.move_up_timer.elapsed > 0

\* paddle_movement is about to run on the AiPaddle its frame's decision
\* left.
MovementDue ==
    /\ schedule = "Update"
    /\ "paddle_movement" \in pending
    /\ "ai_decision_making" \notin pending

\* Paddle positions below, on and above the target of the movement.
AroundTarget == {ai.movement_state.target + dy : dy \in {-1, 0, 1}}

GoingUp(y) ==
    /\ ai.movement_state.kind = "MovingUp"
    /\ ~ai.move_up_timer.finished
    /\ y < ai.movement_state.target

GoingDown(y) ==
    /\ ai.movement_state.kind = "MovingDown"
    /\ ~ai.move_down_timer.finished
    /\ y > ai.movement_state.target

\* C22: for every paddle position, the vertical intent paddle_movement
\* computes for the AI paddle is +speed*dt while MovingUp with the up timer
\* not elapsed and the paddle below the target, -speed*dt while MovingDown
\* with the down timer not elapsed and the paddle above the target, and
\* zero in every other case; the intent a frame has set is one of these
\* three values, positive only while MovingUp and negative only while
\* MovingDown, the timer not elapsed.
C22_VerticalIntent ==
    /\ MovementDue =>
         \A y \in PaddleRange \cup AroundTarget :
            LET i == paddle_movement(ai, delta, y)
            IN  /\ GoingUp(y) => i = speed * delta
                /\ GoingDown(y) => i = -(speed * delta)
                /\ ~GoingUp(y) /\ ~GoingDown(y) => i = 0
    /\ intent # <<>> =>
         /\ intent[1] \in {0, speed * delta, -(speed * delta)}
         /\ intent[1] > 0 => /\ ai.movement_state.kind = "MovingUp"
                             /\ ~ai.move_up_timer.finished
         /\ intent[1] < 0 => /\ ai.movement_state.kind = "MovingDown"
                             /\ ~ai.move_down_timer.finished

\* A short frame moved the paddle down toward its target.
C22_Witness ==
    /\ intent = <<-(speed * delta)>>
    /\ delta = MaxDelta * 20
    /\ ai.movement_state.kind = "MovingDown"
    /\ ai.move_down_timer.elapsed > 0

\* The AiPaddle as the first half of ai_decision_making leaves it: timers
\* advanced, an expired movement back to Idle.
Ticked ==
    LET up == tick(ai.move_up_timer, delta)
        down == tick(ai.move_down_timer, delta)
    IN  [ai EXCEPT
            !.move_up_timer = up,
            !.move_down_timer = down,
            !.movement_state =
                IF \/ @.kind = "MovingUp" /\ up.finished
                   \/ @.kind = "MovingDown" /\ down.finished
                THEN Idle ELSE @]

\* Targets inside, on the edge of and outside the deadzone around y.
TargetsAround(y) ==
    {y + d : d \in {-300, -(movement_deadzone + 1), -movement_deadzone, 0,
                    movement_deadzone, movement_deadzone + 1, 300}}

\* ai_decision_making is about to run and its decision is due.
DecisionRun ==
    /\ schedule = "Update"
    /\ "ai_decision_making" \in pending
    /\ DecisionDue

\* C23: in a run of ai_decision_making whose decision is due, for every
\* paddle position y and target: a target more than movement_deadzone above
\* y gives MovingUp(target) with the up timer armed (elapsed 0, not
\* finished, duration within the clamp) and the down timer untouched; one
\* more than movement_deadzone below gives MovingDown(target) with the down
\* timer armed and the up timer untouched; a target within the deadzone
\* leaves the movement state and both timers exactly as they were.  For
\* every ball, paddle position and draw the AiPaddle after the run has one
\* of these three shapes.
C23_Deadzone ==
    DecisionRun =>
        /\ \A y \in PaddleRange : \A t \in TargetsAround(y) :
           \A jitter \in {0, 99} :
              LET b == start_movement(Ticked, y, t, jitter)
              IN  /\ t - y > movement_deadzone =>
                        /\ b.movement_state = MovingUp(t)
                        /\ Armed(b.move_up_timer)
                        /\ b.move_down_timer = Ticked.move_down_timer
                  /\ y - t > movement_deadzone =>
                        /\ b.movement_state = MovingDown(t)
                        /\ Armed(b.move_down_timer)
                        /\ b.move_up_timer = Ticked.move_up_timer
                  /\ Abs(t - y) <= movement_deadzone => b = Ticked
        /\ \A query \in Flights : \A y \in PaddleRange : \A rnd \in Draws :
              LET after == ai_decision_making(ai, delta, query, y, rnd)
              IN  \/ /\ after.movement_state = Ticked.movement_state
                     /\ after.move_up_timer = Ticked.move_up_timer
                     /\ after.move_down_timer = Ticked.move_down_timer
                  \/ /\ after.movement_state.kind = "MovingUp"
                     /\ after.movement_state.target - y > movement_deadzone
                     /\ Armed(after.move_up_timer)
                     /\ after.move_down_timer = Ticked.move_down_timer
                  \/ /\ after.movement_state.kind = "MovingDown"
                     /\ y - after.movement_state.target > movement_deadzone
                     /\ Armed(after.move_down_timer)
                     /\ after.move_up_timer = Ticked.move_up_timer

\* A movement toward the intersection at 600 is still running after a later
\* decision about an intersection at 0: that decision's target was within
\* the deadzone and changed nothing.
C23_Witness ==
    /\ ai.movement_state = MovingUp(600 - hit_point_offset)
    /\ ai.last_prediction = <<0>>
    /\ ai.move_up_timer.elapsed > 0
    /\ ~ai.move_up_timer.finished

\* Targets up to 14 units from the paddle, in steps of half a unit.
TargetsFar(y) == {y + 50 * k : k \in -28..28}

\* C24: every duration a movement timer is armed with lies in [0.1 s, 0.5 s]
\* (a timer never armed still has the 0 of AiPaddle::default()); for every
\* paddle position, every target at a distance from 0 to 14 units and every
\* jitter from 0 to just under 10 %, calculate_movement_duration is
\* distance / speed scaled by a factor in [1.0, 1.1) and clamped to
\* [min_duration, max_duration].
C24_DurationClamp ==
    /\ \A t \in {ai.move_up_timer, ai.move_down_timer} :
          t.duration = 0 \/ (t.duration >= min_duration
                             /\ t.duration <= max_duration)
    /\ DecisionRun =>
         \A y \in PaddleRange : \A target \in TargetsFar(y) :
         \A jitter \in {0, 50, 99} :
            LET d == calculate_movement_duration(
                         y, target, speed, min_duration, max_duration, jitter)
                base == Abs(target - y) \div speed
            IN  /\ d >= min_duration
                /\ d <= max_duration
                /\ d >= Max(min_duration, Min(base, max_duration))
                /\ d <= Max(min_duration, Min((base * 11) \div 10, max_duration))
                /\ base >= max_duration => d = max_duration
                /\ (base * 11) \div 10 <= min_duration => d = min_duration

\* One movement was armed with the longest and one with the shortest
\* duration.
C24_Witness ==
    /\ ai.move_up_timer.duration = max_duration
    /\ ai.move_down_timer.duration = min_duration

\* Every system of this frame's Update has run; space is still the Space
\* edge of the frame.
UpdateDone == schedule \in {"PostUpdate", "StateTransition"}

C26_TargetSpeedScenario ==
    [][GovernorStep =>
         /\ velocity = <<500, 0>> => velocity' = <<1000, 0>>
         /\ velocity = <<0, 0>> => velocity' = <<0, 0>>]_vars

\* C26 amended: a run of the governor corrects the velocity (5, 0) to
\* (7, 0), the lower end MIN_VELOCITY of the clamped range, and leaves
\* (0, 0) unchanged.
C26_RangeClampScenario ==
    [][GovernorStep =>
         /\ velocity = <<500, 0>> => velocity' = <<MIN_VELOCITY, 0>>
         /\ velocity = <<0, 0>> => velocity' = <<0, 0>>]_vars

\* The governor has run on (5, 0): no physics step leaves (7, 0).
C26_Witness ==
    /\ schedule = "PostUpdate"
    /\ velocity = <<MIN_VELOCITY, 0>>
    /\ <<MIN_VELOCITY, 0>> \notin Velocities

\* C27: at every tick boundary in Playing exactly one of the two holds: a
\* ball exists, or should_serve is true.
C27_BallOrServe ==
    (TickBoundary /\ state = "Playing") => ((balls # {}) # score.should_serve)

\* A frame of Playing with time elapsed begins.
PlayingTick ==
    /\ state = "Playing"
    /\ schedule = "Update"
    /\ pending = UpdateSystems(state, FALSE)
    /\ delta > 0

\* A point has been awarded and its ball is gone: the serve is pending.
ServePending == TickBoundary /\ score.should_serve /\ balls = {}

\* C28: if frames of Playing with positive elapsed time begin again and
\* again, a pending serve is always followed by a ball in play or by the
\* phase GameOver; and should_serve goes back to false only when the serve
\* delay queues the ball or when a restart resets the score, never by
\* pausing or resuming.
C28_ServeEventually ==
    /\ ([]<>PlayingTick) =>
          (ServePending ~> (balls # {} \/ state = "GameOver"))
    /\ [][(score.should_serve /\ ~score'.should_serve) =>
            \/ /\ ServeDelayStep
               /\ commands' = Append(commands, Spawn(score.server_is_p1))
            \/ state = "GameOver" /\ InitialScore(score')]_vars

\* The first point of the match has been followed by its serve.
C28_Witness ==
    /\ state = "Playing"
    /\ schedule = "PostUpdate"
    /\ score.p1 + score.p2 = 1
    /\ ~score.should_serve
    /\ score.serve_timer.elapsed = 0
    /\ balls # {}
    /\ \A b \in balls : ~b.stepped /\ b.served_by_p1 = score.server_is_p1

\* The StateTransition step that enters Playing.
EnterPlaying == state # "Playing" /\ state' = "Playing"

\* C29: on every entry into Playing (from Splash, Paused or GameOver), if no
\* ball exists and no serve is pending, exactly one ball exists when the
\* first Update of Playing begins, served by the current server_is_p1 and
\* without any serve delay (the score and its serve timer are untouched);
\* if a serve is pending or a ball exists, no ball is spawned.
C29_OnResume ==
    [][EnterPlaying =>
         /\ state \in {"Splash", "Paused", "GameOver"}
         /\ score' = score
         /\ commands' = commands
         /\ IF balls = {} /\ ~score.should_serve
            THEN /\ Cardinality(balls') = 1
                 /\ \A b \in balls' :
                       b.served_by_p1 = score.server_is_p1 /\ ~b.stepped
            ELSE balls' = balls]_vars

\* Playing was entered after three points with no serve pending: the ball
\* of the frame's first Update is the one on_resume spawned.
C29_Witness ==
    /\ state = "Playing"
    /\ schedule = "Update"
    /\ pending = UpdateSystems(state, FALSE)
    /\ score.p1 + score.p2 = 3
    /\ ~score.should_serve
    /\ Cardinality(balls) = 1
    /\ \A b \in balls : ~b.stepped /\ b.served_by_p1 = score.server_is_p1

\* A step of the round trip: the transition into Paused, a step of a
\* Paused frame, or the transition back.
PauseStep == state' = "Paused" \/ state = "Paused"

\* C30: every step of a Playing -> Paused -> Playing round trip, from the
\* transition that enters Paused to the transition that re-enters Playing,
\* leaves p1, p2, server_is_p1, serve_count, should_serve and the serve
\* timer unchanged, and the round trip ends in Playing; handle_pause itself
\* never touches the score, so in the tick that requested the pause
\* should_serve only changes by that tick's own point or serve.
C30_PauseKeepsProgress ==
    [][/\ PauseStep =>
            /\ score'.p1 = score.p1
            /\ score'.p2 = score.p2
            /\ score'.server_is_p1 = score.server_is_p1
            /\ score'.serve_count = score.serve_count
            /\ score'.should_serve = score.should_serve
            /\ score'.serve_timer = score.serve_timer
            /\ state' \in {"Paused", "Playing"}
            /\ state \in {"Paused", "Playing"}
       /\ ("handle_pause" \in pending /\ "handle_pause" \notin pending') =>
            score' = score
       /\ (state = "Playing" /\ score'.should_serve # score.should_serve) =>
            \/ score'.p1 + score'.p2 > score.p1 + score.p2
            \/ ServeDelayStep]_vars

\* The resume of a match paused at 2:1 during the serve delay is requested.
C30_Witness ==
    /\ state = "Paused"
    /\ next_state = "Playing"
    /\ schedule = "StateTransition"
    /\ score.p1 = 2
    /\ score.p2 = 1
    /\ score.should_serve
    /\ score.serve_timer.elapsed > 0

\* C31: each ball accounts for at most one point: no step awards more
\* points than there are balls, whatever notifications the frame's batch
\* holds; as a scored ball is despawned when the frame's commands are
\* applied, p1 + p2 never exceeds the number of balls spawned.
C31_OnePointPerBall ==
    [][(score'.p1 + score'.p2) - (score.p1 + score.p2)
          <= Cardinality(balls)]_vars

\* Winner at 11 with the loser at 9 or less, or winner at 12 or more with a
\* lead of exactly 2.
MinimalWin(s) ==
    LET winner == Max(s.p1, s.p2)
        loser == Min(s.p1, s.p2)
    IN  \/ winner = WinScore /\ loser <= WinScore - WinLead
        \/ winner >= WinScore + 1 /\ winner - loser = WinLead

\* C32: whenever the phase is GameOver (and no restart has reset the score)
\* the score is a minimal winning score; and once check_victory() is true,
\* p1 and p2 do not change until reset().
C32_NoPointAfterWin ==
    [][/\ (state' = "GameOver" /\ next_state' # "Playing")
            => MinimalWin(score')
       /\ Score_check_victory(score)
            => \/ score'.p1 = score.p1 /\ score'.p2 = score.p2
               \/ state = "GameOver" /\ InitialScore(score')]_vars

\* C33: whenever the phase is GameOver and no restart has been requested,
\* check_victory() is true of the stored score, p1 # p2, and p1 > p2 (the
\* end screen's "Victory!") holds exactly when P1 satisfies the win
\* condition.
C33_GameOverIsVictory ==
    (state = "GameOver" /\ next_state # "Playing") =>
        /\ Score_check_victory(score)
        /\ score.p1 # score.p2
        /\ (score.p1 > score.p2) <=> p1_wins(score)

\* The end screen of a match P2 won 12:10 at deuce is up.
C33_Witness ==
    /\ state = "GameOver"
    /\ next_state = "Unchanged"
    /\ schedule = "PostUpdate"
    /\ score.p1 = 10
    /\ score.p2 = 12

\* The number of server changes after n points of a match.
Flips(n) == IF n <= 2 * DeuceScore THEN n \div 2 ELSE DeuceScore + (n - 2 * DeuceScore)

\* C34: a point awarded while the match is not yet won changes the server
\* exactly when the number of changes due after n = p1 + p2 points,
\* floor(n/2) up to n = 20 and 10 + (n - 20) beyond, goes up by one, whoever
\* scored it; so in a match the server is the initial server flipped
\* Flips(n) times.
C34_ServerByPointCount ==
    [][(score'.p1 + score'.p2 = score.p1 + score.p2 + 1
          /\ ~Score_check_victory(score)) =>
         LET n == score.p1 + score.p2
         IN  /\ Flipped <=> Flips(n + 1) = Flips(n) + 1
             /\ ~Flipped <=> Flips(n + 1) = Flips(n)
             /\ score'.serve_count = (IF n + 1 <= 2 * DeuceScore
                                      THEN (n + 1) % 2 ELSE 0)]_vars

\* 23 points played, the match still open at deuce.
C34_Witness ==
    /\ score.p1 = 12
    /\ score.p2 = 11
    /\ score.serve_count = 0
    /\ ~Score_check_victory(score)

\* C35: a ball that no physics step has moved yet is at the board centre
\* (0, 0), has no vertical velocity and the speed MIN_VELOCITY, and moves in
\* +x when it was served by P1 and in -x when served by P2; the governor
\* leaves its velocity as it is.
C35_ServedBall ==
    \A b \in balls :
       ~b.stepped =>
          /\ position = <<0, 0>>
          /\ velocity[2] = 0
          /\ SquaredLength(velocity) = MIN_VELOCITY * MIN_VELOCITY
          /\ b.served_by_p1 => velocity[1] > 0
          /\ ~b.served_by_p1 => velocity[1] < 0
          /\ maintain_ball_velocity(velocity) = velocity

\* A ball served by P2 is waiting for its first physics step.
C35_Witness ==
    /\ schedule = "PostUpdate"
    /\ \E b \in balls : ~b.stepped /\ ~b.served_by_p1
    /\ velocity = <<-MIN_VELOCITY, 0>>

\* Frame times of exactly one and of more than two decision periods.
LongFrames == {update_rate, 2 * update_rate + MaxDelta * 20}

\* The AiPaddle after the timers of ai_decision_making have been advanced
\* by d and no decision has been taken.
TickedBy(d) ==
    LET up == tick(ai.move_up_timer, d)
        down == tick(ai.move_down_timer, d)
    IN  [ai EXCEPT
            !.move_up_timer = up,
            !.move_down_timer = down,
            !.update_timer = (@ + d) % update_rate,
            !.movement_state =
                IF \/ @.kind = "MovingUp" /\ up.finished
                   \/ @.kind = "MovingDown" /\ down.finished
                THEN Idle ELSE @]

\* C36: the update timer holds the Playing time accumulated so far modulo
\* the period of 0.3 s.  A run of ai_decision_making over a frame time d
\* that completes no period only advances the timers; a run that completes
\* one or more periods takes exactly one decision, so the decisions of a
\* run never outnumber the periods completed in it.
C36_DecisionThrottle ==
    (schedule = "Update" /\ "ai_decision_making" \in pending) =>
        /\ ai.update_timer \in 0..(update_rate - 1)
        /\ \A d \in {delta} \cup LongFrames : \A query \in Flights :
           \A y \in {-100, 400} : \A rnd \in Draws :
              LET after == ai_decision_making(ai, d, query, y, rnd)
                  periods == (ai.update_timer + d) \div update_rate
              IN  /\ after.update_timer
                        = ai.update_timer + d - periods * update_rate
                  /\ periods = 0 => after = TickedBy(d)
                  /\ periods >= 1 =>
                        after = decide(TickedBy(d), query, y, rnd)

\* After frames of 0.15 s and 0.06 s the timer has completed one period,
\* 0.03 s of the next have passed, and a decision has been taken.
C36_Witness ==
    /\ schedule = "Update"
    /\ "ai_decision_making" \notin pending
    /\ ai.update_timer = MaxDelta * 10
    /\ ai.last_prediction # <<>>

\* Balls on their way to the AI paddle: level, rising and falling, with
\* intersections at y = 0, 6 and -6.
Approaches ==
    {<<[pos |-> <<0, 0>>, vel |-> <<700, 0>>]>>,
     <<[pos |-> <<0, 100>>, vel |-> <<right_x, 500>>]>>,
     <<[pos |-> <<0, -100>>, vel |-> <<right_x, -500>>]>>}

\* Draws on both sides of miss_chance and of error_chance, with no error
\* amount and with the largest, in both directions.
PerturbationDraws ==
    [miss : {miss_chance - 1, miss_chance},
     error : {error_chance - 1, error_chance},
     amount : {0, 99}, sign : BOOLEAN, jitter : {0}]

\* C37: in a run of ai_decision_making whose decision is due and finds a
\* ball on its way to the paddle, last_prediction becomes the unperturbed
\* intersection y.  The target of the movement the decision starts is, on a
\* miss, -2 when the intersection is above 0 and +2 otherwise; on a
\* non-miss it is the intersection plus an error within
\* [-max_error, max_error] (0 when no error is drawn) plus the hit point
\* offset, -hit_point_offset for a rising ball and +hit_point_offset for a
\* falling or level one, so it is at most hit_point_offset + max_error away.
C37_BoundedPerturbation ==
    DecisionRun =>
        \A query \in Approaches : \A y \in PaddleRange :
        \A rnd \in PerturbationDraws :
           LET predicted ==
                   predict_intersection(query[1].pos, query[1].vel,
                                        right_x)[1]
               vy == query[1].vel[2]
               offset == IF vy > 0 THEN -hit_point_offset
                         ELSE hit_point_offset
               after == ai_decision_making(ai, delta, query, y, rnd)
               target == after.movement_state.target
               started == Moving(after) /\ MoveTimer(after).elapsed = 0
           IN  /\ after.last_prediction = <<predicted>>
               /\ Abs(y) = 400 => started
               /\ (started /\ rnd.miss < miss_chance) =>
                     target = (IF predicted > 0 THEN -miss_distance
                               ELSE miss_distance)
               /\ (started /\ rnd.miss >= miss_chance) =>
                     /\ Abs(target - predicted)
                           <= hit_point_offset + max_error
                     /\ Abs(target - predicted - offset) <= max_error
                     /\ rnd.error >= error_chance =>
                           target = predicted + offset

\* A decision about a rising ball with a prediction error of 0.6 has
\* started a movement to 6 - 0.4 + 0.6.
C37_Witness ==
    /\ ai.last_prediction = <<600>>
    /\ ai.movement_state = MovingUp(600 - hit_point_offset + 60)
    /\ ai.move_up_timer.elapsed = 0

\* The x of paddle k while it is punched: punch_distance from its rest
\* position toward the board centre.
PunchedX(k) ==
    IF k = 1 THEN left_x + punch_distance ELSE right_x - punch_distance

\* The notifications name a collision that started between paddle k and the
\* ball in play.
Hit(events, k) ==
    \E i \in DOMAIN events : \E b \in balls :
       /\ events[i].kind = "Started"
       /\ {events[i].e1, events[i].e2} = {BallEntity(b), PaddleEntity(k)}

\* C38: a paddle that is not punching is at rest_x, the x it was created
\* with; a punching paddle is punch_distance nearer the board centre and its
\* timer has run for less than punch_duration.  A run of
\* handle_paddle_collisions that meets a collision of the ball with a
\* paddle that is not punching sets is_punching, restarts the timer and
\* moves the paddle by punch_distance toward the centre; it leaves a
\* punching paddle, and a paddle the ball did not hit, exactly as it was.  A
\* run of update_paddle_punch adds the frame time to the timer of a
\* punching paddle, and once punch_duration has accumulated it puts the
\* paddle back at rest_x and clears is_punching.
C38_PunchStateMachine ==
    /\ \A k \in DOMAIN paddles :
          /\ paddles[k].rest_x = spawn_players[k].x
          /\ ~paddles[k].is_punching => paddles[k].x = paddles[k].rest_x
          /\ paddles[k].is_punching =>
                /\ paddles[k].x = PunchedX(k)
                /\ paddles[k].timer.elapsed < punch_duration
                /\ ~paddles[k].timer.finished
    /\ (schedule = "Update" /\ "handle_paddle_collisions" \in pending) =>
          \A events \in Batches(Contacts(balls)) :
             LET after == handle_paddle_collisions(paddles, events, balls)
             IN  \A k \in DOMAIN paddles :
                    IF Hit(events, k) /\ ~paddles[k].is_punching
                    THEN after[k] =
                            [paddles[k] EXCEPT
                                !.is_punching = TRUE,
                                !.timer = Timer(punch_duration),
                                !.x = PunchedX(k)]
                    ELSE after[k] = paddles[k]
    /\ (schedule = "Update" /\ pending = {"update_paddle_punch"}) =>
          LET after == update_paddle_punch(paddles, delta)
          IN  \A k \in DOMAIN paddles :
                 IF ~paddles[k].is_punching THEN after[k] = paddles[k]
                 ELSE IF paddles[k].timer.elapsed + delta >= punch_duration
                 THEN /\ ~after[k].is_punching
                      /\ after[k].x = paddles[k].rest_x
                 ELSE /\ after[k].is_punching
                      /\ after[k].x = paddles[k].x
                      /\ after[k].timer.elapsed
                            = paddles[k].timer.elapsed + delta

\* The right paddle has finished a punch and is back at rest while the left
\* one is two short frames into its punch.
C38_Witness ==
    /\ ~paddles[2].is_punching
    /\ paddles[2].timer.finished
    /\ paddles[2].x = right_x
    /\ paddles[1].is_punching
    /\ paddles[1].x = left_x + punch_distance
    /\ paddles[1].timer.elapsed = MaxDelta * 10

====
